---- MODULE Spec2Model ----
(***************************************************************************)
(* Model of bwli/utils.py: add_productive_zones (the range labeller) and   *)
(* combo_plot (the multi-track well-log renderer).                         *)
(*                                                                         *)
(* A DataFrame is an object on a heap, named by a reference, so that a     *)
(* write through one name is seen through every other name of the same     *)
(* object.  A table is [index, col]: index is the ordered sequence of row  *)
(* labels, col maps a column name to a function from row label to cell.    *)
(* A cell is an exact rational [n, d]; d = 0 stands for NaN.  Row labels   *)
(* are unique, as in a frame with the default index.                       *)
(***************************************************************************)
EXTENDS Integers, Sequences, FiniteSets, TLC

VARIABLES
    pc,                 \* position of the running function
    heap,               \* reference -> table
    \* ---- add_productive_zones
    productive_zones,   \* argument: sequence of <<top, base>>
    arg,                \* reference of the table passed as `data`
    saved,              \* value of the passed table when the call began
    result,             \* reference of the local `result` (0: none yet)
    zone_idx,           \* next interval of the for loop
    calls,              \* completed calls
    prev_class,         \* class column returned by the previous call
    \* ---- combo_plot
    tracks_config, top_depth, bottom_depth, num_vertical_gridlines, formation,
    logs,               \* reference of the local `logs` (0: none yet)
    axes,               \* the figure's tracks
    track_idx,          \* next track of the running loop
    smooth_writes,      \* row labels the smoothing pass has written
    warnings            \* columns named in the printed warnings, in order

labelVars == <<productive_zones, arg, saved, result, zone_idx, calls, prev_class>>
plotVars == <<tracks_config, top_depth, bottom_depth, num_vertical_gridlines,
              formation, logs, axes, track_idx, smooth_writes, warnings>>
vars == <<pc, heap, labelVars, plotVars>>

(***************************************************************************)
(* Bounds of the model.                                                    *)
(***************************************************************************)
MaxLabelRows == 3
MaxZones == 2
MaxCalls == 2
PlotRows == 7
MaxTracks == 2
MaxCurves == 3

(***************************************************************************)
(* Cells: exact rationals, NaN.                                            *)
(***************************************************************************)
RECURSIVE GCD(_, _)
GCD(a, b) == IF b = 0 THEN a ELSE GCD(b, a % b)

Abs(x) == IF x < 0 THEN -x ELSE x

Rat(n, d) ==
    LET g == GCD(Abs(n), d) IN [n |-> n \div g, d |-> d \div g]

Num(k) == [n |-> k, d |-> 1]

NaN == [n |-> 0, d |-> 0]

IsNaN(x) == x.d = 0

\* x >= y and x <= y of floats: every comparison with NaN is False
Ge(x, y) == ~IsNaN(x) /\ ~IsNaN(y) /\ x.n * y.d >= y.n * x.d

Le(x, y) == ~IsNaN(x) /\ ~IsNaN(y) /\ x.n * y.d <= y.n * x.d

RatAdd(x, y) ==
    LET l == (x.d \div GCD(x.d, y.d)) * y.d
    IN  Rat(x.n * (l \div x.d) + y.n * (l \div y.d), l)

RatScale(k, x) == Rat(k * x.n, x.d)

RatDiv(x, k) == Rat(x.n, x.d * k)

Range(s) == {s[i] : i \in DOMAIN s}

SeqsUpTo(S, n) == UNION {[1..k -> S] : k \in 0..n}

(***************************************************************************)
(* DataFrame operations.                                                   *)
(***************************************************************************)
DEPT == "DEPT"
CLASS == "hydrocarbon_formation_class"

Columns(t) == DOMAIN t.col

Labels(t) == Range(t.index)

\* df[name] = scalar: the column is created or replaced, every row set
SetColumn(t, name, v) ==
    [t EXCEPT !.col = [c \in Columns(t) \cup {name} |->
                          IF c = name THEN [r \in Labels(t) |-> v] ELSE t.col[c]]]

\* df.loc[rows, name] = vals, vals a function of the row label
LocAssign(t, rows, name, vals) ==
    [t EXCEPT !.col[name] = [r \in Labels(t) |->
                                IF r \in rows THEN vals[r] ELSE t.col[name][r]]]

\* the column in row order
ColumnSeq(t, name) == [i \in DOMAIN t.index |-> t.col[name][t.index[i]]]

\* result = data: another name of the same object
DataFrameAlias(h, ref, new) == [ref |-> ref, heap |-> h]

\* line 202: data.copy(), a new object holding the same values
DataFrameCopy(h, ref, new) ==
    [ref |-> new, heap |-> [r \in DOMAIN h \cup {new} |-> IF r = new THEN h[ref] ELSE h[r]]]

(***************************************************************************)
(* add_productive_zones                                                    *)
(***************************************************************************)
\* a column that starts from the labels the table already carries, inverted
InitClassColumnInverting(t) ==
    IF CLASS \in Columns(t)
    THEN [t EXCEPT !.col[CLASS] = [r \in Labels(t) |->
                                      IF t.col[CLASS][r] = Num(0) THEN Num(1) ELSE Num(0)]]
    ELSE SetColumn(t, CLASS, Num(0))

\* line 205: result['hydrocarbon_formation_class'] = 0
InitClassColumn(t) == SetColumn(t, CLASS, Num(0))

\* the mask with base excluded
ZoneMaskStrict(t, zone) ==
    {r \in Labels(t) : Ge(t.col[DEPT][r], Num(zone[1])) /\ ~Ge(t.col[DEPT][r], Num(zone[2]))}

\* line 212: mask = (result.DEPT >= top) & (result.DEPT <= base)
ZoneMask(t, zone) ==
    {r \in Labels(t) : Ge(t.col[DEPT][r], Num(zone[1])) /\ Le(t.col[DEPT][r], Num(zone[2]))}

\* the column assigned from the mask: rows outside it go back to 0
MarkZoneOverwriting(t, zone) ==
    [t EXCEPT !.col[CLASS] = [r \in Labels(t) |->
                                 IF r \in ZoneMask(t, zone) THEN Num(1) ELSE Num(0)]]

\* line 213: result.loc[mask, 'hydrocarbon_formation_class'] = 1
MarkZone(t, zone) ==
    LocAssign(t, ZoneMask(t, zone), CLASS, [r \in Labels(t) |-> Num(1)])

\* the caller's tables: DEPT of any order, with repeats and NaN, with or
\* without a stale class column
DepthValues == {Num(1), Num(2), NaN}

LabelTables ==
    UNION {
        LET idx == [i \in 1..n |-> i] IN
        { [index |-> idx, col |-> (DEPT :> [r \in 1..n |-> d[r]])] : d \in [1..n -> DepthValues] }
        \cup
        { [index |-> idx, col |-> (DEPT :> [r \in 1..n |-> d[r]]
                                   @@ CLASS :> [r \in 1..n |-> Num(1)])] :
              d \in [1..n -> DepthValues] }
        : n \in 0..MaxLabelRows }

\* intervals with top <= base; <<3, 3>> lies outside every table's depths
ZoneEdges == {1, 2, 3}

Zones == {z \in ZoneEdges \X ZoneEdges : z[1] <= z[2]}

InitLabel ==
    /\ pc = "start"
    /\ \E t \in LabelTables : heap = (1 :> t)
    /\ productive_zones \in SeqsUpTo(Zones, MaxZones)
    /\ arg = 0 /\ saved = <<>> /\ result = 0 /\ zone_idx = 0 /\ calls = 0
    /\ prev_class = <<>>
    /\ tracks_config = <<>> /\ top_depth = 0 /\ bottom_depth = 0
    /\ num_vertical_gridlines = 0 /\ formation = <<>>
    /\ logs = 0 /\ axes = <<>> /\ track_idx = 0
    /\ smooth_writes = {} /\ warnings = <<>>

\* lines 202-205: the call, the copy and the zeroed column.  The caller
\* passes its own table or the table a previous call returned.
AddProductiveZonesCall ==
    /\ pc \in {"start", "labelled"}
    /\ calls < MaxCalls
    /\ \E a \in {1} \cup (IF result # 0 THEN {result} ELSE {}) :
        LET c == DataFrameCopy(heap, a, calls + 2) IN
        /\ arg' = a
        /\ saved' = heap[a]
        /\ result' = c.ref
        /\ heap' = [c.heap EXCEPT ![c.ref] = InitClassColumn(c.heap[c.ref])]
    /\ prev_class' = IF result # 0 THEN ColumnSeq(heap[result], CLASS) ELSE <<>>
    /\ zone_idx' = 1
    /\ pc' = "zones"
    /\ UNCHANGED <<productive_zones, calls, plotVars>>

\* lines 211-213: one iteration of the loop over the intervals
AddProductiveZonesMark ==
    /\ pc = "zones"
    /\ zone_idx <= Len(productive_zones)
    /\ heap' = [heap EXCEPT ![result] = MarkZone(heap[result], productive_zones[zone_idx])]
    /\ zone_idx' = zone_idx + 1
    /\ UNCHANGED <<pc, productive_zones, arg, saved, result, calls, prev_class, plotVars>>

\* line 215: return result
AddProductiveZonesReturn ==
    /\ pc = "zones"
    /\ zone_idx > Len(productive_zones)
    /\ pc' = "labelled"
    /\ calls' = calls + 1
    /\ UNCHANGED <<heap, productive_zones, arg, saved, result, zone_idx, prev_class, plotVars>>

NextLabel ==
    \/ AddProductiveZonesCall
    \/ AddProductiveZonesMark
    \/ AddProductiveZonesReturn

SpecLabel == InitLabel /\ [][NextLabel]_vars

(***************************************************************************)
(* combo_plot                                                              *)
(***************************************************************************)
\* dict.get(key, default)
Get(d, key, default) == IF key \in DOMAIN d THEN d[key] ELSE default

\* the mask with bottom_depth excluded
DepthMaskStrict(t, top, bottom) ==
    {r \in Labels(t) : Ge(t.col[DEPT][r], Num(top)) /\ ~Ge(t.col[DEPT][r], Num(bottom))}

\* line 65: (data[depth_column] >= top_depth) & (data[depth_column] <= bottom_depth)
DepthMask(t, top, bottom) ==
    {r \in Labels(t) : Ge(t.col[DEPT][r], Num(top)) /\ Le(t.col[DEPT][r], Num(bottom))}

\* data[mask]: a new frame of the selected rows, keeping their labels
SelectRows(t, rows) ==
    [index |-> SelectSeq(t.index, LAMBDA r : r \in rows),
     col |-> [c \in Columns(t) |-> [r \in rows |-> t.col[c][r]]]]

\* logs = data: the caller's object under another name
ComboNoCopy(h, top, bottom) == [ref |-> 1, heap |-> h]

\* line 65: logs = data[mask].copy(), a new object
ComboFilterCopy(h, top, bottom) ==
    [ref |-> 2,
     heap |-> [r \in DOMAIN h \cup {2} |->
                  IF r = 2 THEN SelectRows(h[1], DepthMask(h[1], top, bottom)) ELSE h[r]]]

\* scipy.signal.savgol_filter(x, window_length=5, polyorder=3, mode='nearest'):
\* the least-squares cubic over five points, (-3, 12, 17, 12, -3) / 35, the
\* signal extended at both ends by its nearest value
SavGolCoeffs == <<-3, 12, 17, 12, -3>>

SavGolNorm == 35

WindowLength == 5

RECURSIVE RatSum(_)
RatSum(s) == IF s = <<>> THEN Num(0) ELSE RatAdd(Head(s), RatSum(Tail(s)))

Clamp(i, n) == IF i < 1 THEN 1 ELSE IF i > n THEN n ELSE i

SavGolFilter(x) ==
    [i \in DOMAIN x |->
        RatDiv(RatSum([j \in 1..WindowLength |->
                          RatScale(SavGolCoeffs[j],
                                   x[Clamp(i + j - (WindowLength + 1) \div 2, Len(x))])]),
               SavGolNorm)]

\* line 101: len(valid_data) > 5
MinValidExclusive == 5

\* line 99: if col in logs.columns
SmoothColumnPresent(t, c) == c \in Columns(t)

\* lines 98-103 for one curve of a smoothed track
SmoothCurve(t, c) ==
    LET valid == SelectSeq(t.index, LAMBDA r : ~IsNaN(t.col[c][r]))
        smoothed == SavGolFilter([i \in DOMAIN valid |-> t.col[c][valid[i]]])
        at == [r \in Range(valid) |-> smoothed[CHOOSE i \in DOMAIN valid : valid[i] = r]]
    IN  IF Len(valid) > MinValidExclusive
        THEN [table |-> LocAssign(t, Range(valid), c, at), written |-> Range(valid)]
        ELSE [table |-> t, written |-> {}]

\* lines 97-103: the curves of one smoothed track, in order.  logs[col] of a
\* column the frame does not have raises KeyError.
RECURSIVE SmoothCurves(_, _, _)
SmoothCurves(t, curves, written) ==
    IF curves = <<>> THEN [table |-> t, written |-> written, raised |-> FALSE]
    ELSE LET c == Head(curves)["column"] IN
         IF ~SmoothColumnPresent(t, c) THEN SmoothCurves(t, Tail(curves), written)
         ELSE IF c \notin Columns(t) THEN [table |-> t, written |-> written, raised |-> TRUE]
         ELSE LET s == SmoothCurve(t, c) IN
              SmoothCurves(s.table, Tail(curves), written \cup s.written)

\* no test of the column before it is read
PlotAnyColumn(t, c) == TRUE

\* line 123: if col not in logs.columns: skip
PlotColumnPresent(t, c) == c \in Columns(t)

\* lines 157-172: the major locator and the grid of one twin axis
DefaultLocator(is_log_scale) ==
    [kind |-> IF is_log_scale THEN "LogLocator" ELSE "AutoLocator"]

GridLocator(show_grid, is_log_scale, n) ==
    IF show_grid
    THEN [kind |-> IF is_log_scale THEN "LogLocator" ELSE "LinearLocator", numticks |-> n]
    ELSE DefaultLocator(is_log_scale)

\* the track's show_grid, whatever the curve's
TrackShowGridOnly(curve_info, track_show_grid) == track_show_grid

\* line 158: the curve's show_grid, else the track's
EffectiveShowGrid(curve_info, track_show_grid) ==
    Get(curve_info, "show_grid", track_show_grid)

\* lines 127-172: the twin axis of one curve
TwinAxis(t, curve_info, track_show_grid, n) ==
    LET col == curve_info["column"]
        is_log_scale == Get(curve_info, "log_scale", FALSE)
        show_grid == EffectiveShowGrid(curve_info, track_show_grid)
    IN  [column |-> col,
         xlabel |-> Get(curve_info, "label", col),
         rows |-> t.index,
         x |-> ColumnSeq(t, col),
         y |-> ColumnSeq(t, DEPT),
         xscale |-> IF is_log_scale THEN "log" ELSE "linear",
         locator |-> GridLocator(show_grid, is_log_scale, n),
         grid |-> show_grid]

\* lines 119-172: the curves of one track, in order
RECURSIVE PlotCurves(_, _, _, _, _, _)
PlotCurves(t, curves, track_show_grid, n, twins, warned) ==
    IF curves = <<>> THEN [twins |-> twins, warned |-> warned, raised |-> FALSE]
    ELSE LET c == Head(curves)["column"] IN
         IF ~PlotColumnPresent(t, c)
         THEN PlotCurves(t, Tail(curves), track_show_grid, n, twins, Append(warned, c))
         ELSE IF c \notin Columns(t)
         THEN [twins |-> twins, warned |-> warned, raised |-> TRUE]
         ELSE PlotCurves(t, Tail(curves), track_show_grid, n,
                         Append(twins, TwinAxis(t, Head(curves), track_show_grid, n)),
                         warned)

\* lines 178-185: the formation lines of one track
FormationLines(fm, top, bottom) ==
    {<<name, fm[name]>> : name \in {k \in DOMAIN fm : fm[k] >= top /\ fm[k] <= bottom}}

(***************************************************************************)
(* The calls of combo_plot.                                                *)
(***************************************************************************)
GR == "GR"
NPHI == "NPHI"

\* the caller's table: depths 1..PlotRows in order, a GR column that is flat
\* or has a spike in row 3, with or without a missing value in row 4; the
\* table has no NPHI column
PlotTables ==
    { [index |-> [i \in 1..PlotRows |-> i],
       col |-> (DEPT :> [r \in 1..PlotRows |-> Num(r)]
                @@ GR :> [r \in 1..PlotRows |->
                             IF r = 3 THEN a ELSE IF r = 4 THEN b ELSE Num(0)])] :
         a \in {Num(0), Num(1)}, b \in {Num(0), NaN} }

SpikeTable == CHOOSE t \in PlotTables : t.col[GR][3] = Num(1) /\ t.col[GR][4] = Num(0)

\* depth ranges that keep all rows, all but the first, all but both ends
DepthRanges == {<<1, PlotRows>>, <<2, PlotRows>>, <<2, PlotRows - 1>>}

CurveCount(tracks) ==
    LET RECURSIVE Sum(_)
        Sum(s) == IF s = <<>> THEN 0 ELSE Len(Head(s)["curves"]) + Sum(Tail(s))
    IN  Sum(tracks)

ConfigsOf(trackSet, maxTracks) ==
    {c \in SeqsUpTo(trackSet, maxTracks) : CurveCount(c) <= MaxCurves}

\* tracks that differ in their smoothing and in the columns of their curves
CurveLabels == <<"first", "second", "third", "fourth", "fifth", "sixth">>

SmoothingTracks ==
    LET curveLists ==
            UNION {{[k \in 1..n |-> ("column" :> cols[k]) @@ ("label" :> CurveLabels[k])] :
                       cols \in [1..n -> {GR, NPHI}]} : n \in 0..MaxCurves}
    IN  {("curves" :> cs) : cs \in curveLists}
        \cup {("curves" :> cs) @@ ("smoothing" :> s) : cs \in curveLists, s \in {"yes", "no"}}

\* one track whose curves differ in their scale and grid settings
GridTracks ==
    LET curveSet ==
            {("column" :> GR) @@ l @@ g :
                l \in {<<>>, ("log_scale" :> TRUE)},
                g \in {<<>>, ("show_grid" :> TRUE), ("show_grid" :> FALSE)}}
        curveLists == SeqsUpTo(curveSet, MaxCurves) \ {<<>>}
    IN  {("curves" :> cs) @@ g :
            cs \in curveLists,
            g \in {<<>>, ("show_grid" :> TRUE), ("show_grid" :> FALSE)}}

\* num_vertical_gridlines: the default and another value
DefaultGridlines == 5

GridlineCounts == {3, DefaultGridlines}

\* formation: None (the empty map here) or a map with one depth inside and
\* one outside the plotted range
Formations == {<<>>, ("LL-35-TOP" :> 3 @@ "LL-35-BOTTOM" :> PlotRows + 1)}

\* the calls: every smoothing configuration on every table and range with
\* the default grid, and every grid configuration on one table and range
InitPlot ==
    /\ pc = "filter"
    /\ \E family \in {"smoothing", "grid"} :
          IF family = "smoothing"
          THEN /\ tracks_config \in ConfigsOf(SmoothingTracks, MaxTracks)
               /\ \E t \in PlotTables : heap = (1 :> t)
               /\ \E r \in DepthRanges : top_depth = r[1] /\ bottom_depth = r[2]
               /\ num_vertical_gridlines = DefaultGridlines
               /\ formation = <<>>
          ELSE /\ tracks_config \in ConfigsOf(GridTracks, 1)
               /\ heap = (1 :> SpikeTable)
               /\ top_depth = 2
               /\ bottom_depth = PlotRows - 1
               /\ num_vertical_gridlines \in GridlineCounts
               /\ formation \in Formations
    /\ saved = heap[1]
    /\ logs = 0 /\ axes = <<>> /\ track_idx = 0 /\ smooth_writes = {}
    /\ warnings = <<>>
    /\ productive_zones = <<>> /\ arg = 0 /\ result = 0 /\ zone_idx = 0
    /\ calls = 0 /\ prev_class = <<>>

\* line 65
ComboFilter ==
    /\ pc = "filter"
    /\ LET c == ComboFilterCopy(heap, top_depth, bottom_depth) IN
        /\ logs' = c.ref
        /\ heap' = c.heap
    /\ pc' = "layout"
    /\ UNCHANGED <<labelVars, tracks_config, top_depth, bottom_depth,
                   num_vertical_gridlines, formation, axes, track_idx, smooth_writes, warnings>>

\* lines 67-89: one region per track; axes[0] of no region raises IndexError
\* (and plt.subplots refuses ncols = 0 before that)
ComboLayout ==
    /\ pc = "layout"
    /\ LET num_tracks == Len(tracks_config) IN
        IF num_tracks = 0
        THEN /\ pc' = "raised"
             /\ UNCHANGED <<axes, track_idx>>
        ELSE /\ axes' = [i \in 1..num_tracks |->
                            [ylim |-> <<bottom_depth, top_depth>>,
                             ylabel |-> IF i = 1 THEN "Depth" ELSE "",
                             twins |-> <<>>,
                             hlines |-> {}]]
             /\ track_idx' = 1
             /\ pc' = "smooth"
    /\ UNCHANGED <<heap, labelVars, tracks_config, top_depth, bottom_depth,
                   num_vertical_gridlines, formation, logs, smooth_writes, warnings>>

\* lines 92-103: the smoothing pass over one track
ComboSmoothTrack ==
    /\ pc = "smooth"
    /\ track_idx <= Len(tracks_config)
    /\ LET track_info == tracks_config[track_idx]
           should_smooth == Get(track_info, "smoothing", "no") = "yes"
           s == SmoothCurves(heap[logs], track_info["curves"], smooth_writes)
       IN  IF ~should_smooth
           THEN /\ track_idx' = track_idx + 1
                /\ UNCHANGED <<pc, heap, smooth_writes>>
           ELSE IF s.raised
           THEN /\ pc' = "raised"
                /\ UNCHANGED <<heap, track_idx, smooth_writes>>
           ELSE /\ heap' = [heap EXCEPT ![logs] = s.table]
                /\ smooth_writes' = s.written
                /\ track_idx' = track_idx + 1
                /\ UNCHANGED pc
    /\ UNCHANGED <<labelVars, tracks_config, top_depth, bottom_depth,
                   num_vertical_gridlines, formation, logs, axes, warnings>>

\* line 106: the smoothing loop is over, the plotting loop begins
ComboSmoothDone ==
    /\ pc = "smooth"
    /\ track_idx > Len(tracks_config)
    /\ pc' = "plot"
    /\ track_idx' = 1
    /\ UNCHANGED <<heap, labelVars, tracks_config, top_depth, bottom_depth,
                   num_vertical_gridlines, formation, logs, axes, smooth_writes, warnings>>

\* lines 106-172: one track of the plotting loop
ComboPlotTrack ==
    /\ pc = "plot"
    /\ track_idx <= Len(tracks_config)
    /\ LET track_info == tracks_config[track_idx]
           curves == Get(track_info, "curves", <<>>)
           track_show_grid == Get(track_info, "show_grid", TRUE)
           p == PlotCurves(heap[logs], curves, track_show_grid, num_vertical_gridlines,
                           <<>>, warnings)
       IN  IF p.raised
           THEN /\ pc' = "raised"
                /\ UNCHANGED <<axes, track_idx, warnings>>
           ELSE /\ axes' = [axes EXCEPT ![track_idx].twins = p.twins]
                /\ warnings' = p.warned
                /\ track_idx' = track_idx + 1
                /\ UNCHANGED pc
    /\ UNCHANGED <<heap, labelVars, tracks_config, top_depth, bottom_depth,
                   num_vertical_gridlines, formation, logs, smooth_writes>>

\* lines 175-187: the formation overlay on every track, and return fig
ComboFormationReturn ==
    /\ pc = "plot"
    /\ track_idx > Len(tracks_config)
    /\ axes' = IF formation = <<>> THEN axes
               ELSE [i \in DOMAIN axes |->
                        [axes[i] EXCEPT !.hlines = FormationLines(formation, top_depth, bottom_depth)]]
    /\ pc' = "returned"
    /\ UNCHANGED <<heap, labelVars, tracks_config, top_depth, bottom_depth,
                   num_vertical_gridlines, formation, logs, track_idx, smooth_writes, warnings>>

NextPlot ==
    \/ ComboFilter
    \/ ComboLayout
    \/ ComboSmoothTrack
    \/ ComboSmoothDone
    \/ ComboPlotTrack
    \/ ComboFormationReturn
SpecPlot == InitPlot /\ [][NextPlot]_vars

(***************************************************************************)
(* Properties.                                                             *)
(***************************************************************************)
\* top <= d <= base, for a depth cell d that is a number
Within(d, top, base) == d.d # 0 /\ top * d.d <= d.n /\ d.n <= base * d.d

InSomeZone(d) ==
    \E k \in DOMAIN productive_zones :
        Within(d, productive_zones[k][1], productive_zones[k][2])

ClassOf(r) == heap[result].col[CLASS][r]

\* C1: the table add_productive_zones returns has class 1 in exactly the rows
\* whose DEPT lies in at least one interval, and class 0 in every other row.
C1_ClassIffInSomeZone ==
    pc = "labelled" =>
        /\ CLASS \in Columns(heap[result])
        /\ heap[result].index = saved.index
        /\ \A r \in Labels(saved) :
              ClassOf(r) = IF InSomeZone(saved.col[DEPT][r]) THEN Num(1) ELSE Num(0)

C1_Witness ==
    /\ pc = "labelled"
    /\ Len(productive_zones) = 2
    /\ \E r \in Labels(saved) : ClassOf(r) = Num(1)
    /\ \E r \in Labels(saved) : ClassOf(r) = Num(0) /\ ~IsNaN(saved.col[DEPT][r])
    /\ \E r \in Labels(saved) : ClassOf(r) = Num(0) /\ IsNaN(saved.col[DEPT][r])

\* C5: during and after a call of add_productive_zones the table that was
\* passed in has the columns and values it had when the call began; the
\* class column is written to another object.
C5_InputNotMutated ==
    pc \in {"zones", "labelled"} => heap[arg] = saved /\ result # arg

C5_Witness ==
    /\ pc = "labelled"
    /\ CLASS \notin Columns(heap[arg])
    /\ CLASS \in Columns(heap[result])
    /\ \E r \in Labels(saved) : ClassOf(r) = Num(1)

\* C7: a call with the same intervals, on the same input or on the table a
\* previous call returned, returns the class column the previous call
\* returned.
C7_Idempotent ==
    (pc = "labelled" /\ calls >= 2) => ColumnSeq(heap[result], CLASS) = prev_class

C7_Witness ==
    /\ pc = "labelled"
    /\ calls >= 2
    /\ arg # 1
    /\ \E r \in Labels(saved) : ClassOf(r) = Num(1)
    /\ \E r \in Labels(saved) : ClassOf(r) = Num(0)

\* C10: each iteration of the interval loop keeps every row that was
\* labelled 1, and after it the rows labelled 1 are those in the union of
\* the intervals applied so far, whatever their order.
C10_LabelsOnlyGrow ==
    [][(pc = "zones" /\ pc' = "zones") =>
          /\ \A r \in Labels(heap[result]) :
                ClassOf(r) = Num(1) => heap'[result].col[CLASS][r] = Num(1)
          /\ \A r \in Labels(heap[result]) :
                heap'[result].col[CLASS][r] = Num(1) <=>
                    \E k \in 1..(zone_idx' - 1) :
                        Within(saved.col[DEPT][r], productive_zones[k][1],
                               productive_zones[k][2])]_vars

C10_Witness ==
    /\ pc = "zones"
    /\ zone_idx = 3
    /\ \E r \in Labels(saved) :
          /\ ClassOf(r) = Num(1)
          /\ ~Within(saved.col[DEPT][r], productive_zones[2][1], productive_zones[2][2])

\* the rows of the caller's table with top_depth <= depth <= bottom_depth
InRangeRows ==
    SelectSeq(saved.index,
              LAMBDA r : Within(saved.col[DEPT][r], top_depth, bottom_depth))

CallerValues(c) == [k \in DOMAIN InRangeRows |-> saved.col[c][InRangeRows[k]]]

Twins(i) == axes[i].twins

\* the curves of track i whose column the caller's table has
PresentCurves(i) ==
    SelectSeq(tracks_config[i]["curves"], LAMBDA c : c["column"] \in Columns(saved))

\* C2: the curves of a track that is not smoothed are plotted with the
\* caller's values of the rows in range.
C2_UnsmoothedTrackPlotsCallerValues ==
    pc = "returned" =>
        \A i \in DOMAIN tracks_config :
            Get(tracks_config[i], "smoothing", "no") # "yes" =>
                \A j \in DOMAIN Twins(i) : Twins(i)[j].x = CallerValues(Twins(i)[j].column)

\* the columns of the curves whose column the caller's table lacks, over the
\* first n tracks in order
RECURSIVE AbsentColumns(_)
AbsentColumns(n) ==
    IF n = 0 THEN <<>>
    ELSE LET absent == SelectSeq(tracks_config[n]["curves"],
                                 LAMBDA c : c["column"] \notin Columns(saved))
         IN  AbsentColumns(n - 1) \o [k \in DOMAIN absent |-> absent[k]["column"]]

\* C3: with a track to draw, combo_plot never raises; a curve whose column
\* is absent gets a warning and no twin axis, and the twin axes of a track
\* are the curves whose column is present, in order.
C3_MissingColumnSkipped ==
    /\ (Len(tracks_config) > 0 => pc # "raised")
    /\ pc = "returned" => warnings = AbsentColumns(Len(tracks_config))
    /\ pc = "returned" =>
          \A i \in DOMAIN tracks_config :
              /\ Len(Twins(i)) = Len(PresentCurves(i))
              /\ \A j \in DOMAIN Twins(i) :
                    /\ Twins(i)[j].column = PresentCurves(i)[j]["column"]
                    /\ Twins(i)[j].xlabel =
                          (IF "label" \in DOMAIN PresentCurves(i)[j]
                           THEN PresentCurves(i)[j]["label"]
                           ELSE PresentCurves(i)[j]["column"])

C3_Witness ==
    /\ pc = "returned"
    /\ \E i \in DOMAIN tracks_config :
          LET curves == tracks_config[i]["curves"] IN
          /\ Get(tracks_config[i], "smoothing", "no") = "yes"
          /\ Len(curves) = 2
          /\ curves[1]["column"] = NPHI
          /\ curves[2]["column"] = GR
          /\ Len(Twins(i)) = 1
          /\ Twins(i)[1].xlabel = "second"
          /\ warnings # <<>>
    /\ \E i \in DOMAIN tracks_config :
          /\ Get(tracks_config[i], "smoothing", "no") = "no"
          /\ Len(tracks_config[i]["curves"]) = 1
          /\ Twins(i) = <<>>

GridLocatorOf(tw) ==
    [kind |-> IF tw.xscale = "log" THEN "LogLocator" ELSE "LinearLocator",
     numticks |-> num_vertical_gridlines]

C6_CallerTableNotMutated == heap[1] = saved

C6_Witness ==
    /\ pc = "returned"
    /\ smooth_writes # {}
    /\ ColumnSeq(heap[logs], GR) # CallerValues(GR)

\* C8: the working copy holds exactly the rows of the caller's table with
\* top_depth <= depth <= bottom_depth, in table order; every curve is
\* plotted over exactly those rows against their depths; and smoothing
\* writes no other row.
C8_OnlyRowsInRange ==
    logs # 0 =>
        /\ heap[logs].index = InRangeRows
        /\ smooth_writes \subseteq Range(InRangeRows)
        /\ \A i \in DOMAIN axes : \A j \in DOMAIN Twins(i) :
              /\ Twins(i)[j].rows = InRangeRows
              /\ Twins(i)[j].y = CallerValues(DEPT)
              /\ Len(Twins(i)[j].x) = Len(InRangeRows)

C8_Witness ==
    /\ pc = "returned"
    /\ top_depth = 2
    /\ bottom_depth = PlotRows
    /\ smooth_writes # {}
    /\ \E i \in DOMAIN axes : \E j \in DOMAIN Twins(i) :
          Twins(i)[j].rows = [k \in 1..(PlotRows - 1) |-> k + 1]

\* C9: combo_plot with an empty tracks_config does not raise.
C9_EmptyConfigCompletes ==
    Len(tracks_config) = 0 => pc # "raised"

====
